---- MODULE Spec2Model ----
(***************************************************************************)
(* A model of callback.hpp: the Callback interface, its six wrapper class  *)
(* templates and the six MakeCallback overloads.                           *)
(*                                                                         *)
(* What is compile-time in C++ (overload resolution, template              *)
(* instantiation) is computed by operators; a use the compiler rejects     *)
(* leaves a request whose status says so and no wrapper.  What is run-time *)
(* (construction, copies of the Callback::Ptr, call(), the caller's own    *)
(* variables and shared_ptr) is the state machine.                         *)
(*                                                                         *)
(* The caller passes n objects of a type T as the trailing arguments, its   *)
(* variables (lvalues) or temporaries (rvalues) that are destroyed when the *)
(* factory call's full expression ends; the callable declares n parameters, *)
(* all of one of the kinds T, T&, const T& or U (another type that T        *)
(* converts to), and the template arguments are deduced or written out by   *)
(* the caller.  A variable can leave its scope while a handle is held.      *)
(***************************************************************************)
EXTENDS Integers, Sequences, FiniteSets, TLC

\* Bounds of the model.
MaxHandles == 1      \* wrappers requested in one run
MaxCalls == 3        \* call() invocations in one run
MaxArgs == 2         \* longest argument list passed to a factory / constructor
MaxHolders == 2      \* copies of one Callback::Ptr alive at a time

Null == "null"       \* an empty std::shared_ptr / nullptr / a null pointer to function or member
NoRecv == "none"     \* a call that has no receiver (a free function)
NoFn == "nofn"       \* no callable: the members of a request that built nothing
Obj == {"o1", "o2"}  \* the receiver objects a run can allocate
Val == {0, 1}        \* the values of the caller's argument variables
Outcomes == {"ok", "E1", "E2"}   \* how the wrapped callable ends: normally, or by a failure

\* The kinds of a factory call's leading (non-argument) parameters.
FnPtr == "fnptr"     \* Ret(*)(Args...)
Shared == "shared"   \* std::shared_ptr<Class>
Pmf == "pmf"         \* Ret(Class::*)(Args...)
CPmf == "cpmf"       \* Ret(Class::*)(Args...) const
SharedDer == "sharedder"   \* std::shared_ptr<Derived>, Derived a class derived from Class

\* The kinds of a callable's declared parameters, T the type of the caller's variables.
ByVal == "val"       \* T
LRef == "ref"        \* T&
CRef == "cref"       \* const T&
Conv == "conv"       \* U, another type that T converts to
ParamKinds == {ByVal, LRef, CRef, Conv}

VARIABLES
    ptr,       \* the caller's own std::shared_ptr<Class> variable: an object or Null
    status,    \* per receiver object: "unborn", "alive" or "dead" (destroyed)
    ivar,      \* the caller's argument objects, ivar[i] passed as the i-th argument:
               \* what the storage of object i holds, during its lifetime and after
    scope,     \* the argument objects whose lifetime has not ended
    handles,   \* the requests made so far; a built one is a wrapper behind a Callback::Ptr
    outcome,   \* the latest call(): on which request, what the target signalled (raised),
               \* the error call() raised itself (own), what the caller of call() got (seen)
    aborted    \* the process was ended by undefined behaviour

vars == <<ptr, status, ivar, scope, handles, outcome, aborted>>

(***************************************************************************)
(* Compile time: the MakeCallback overload set and the class templates.    *)
(***************************************************************************)

\* The six overloads in source order: the kinds of the leading parameters, whether
\* a parameter pack Args... follows, and the wrapper the body constructs.
Overloads ==
    << [lead |-> <<FnPtr>>,       variadic |-> TRUE,  makes |-> "FunctionCallback"],
       [lead |-> <<Shared, Pmf>>, variadic |-> TRUE,  makes |-> "MemberCallback"],
       [lead |-> <<Pmf>>,         variadic |-> TRUE,  makes |-> "ConstMemberCallback"],
       [lead |-> <<FnPtr>>,       variadic |-> FALSE, makes |-> "FunctionCallbackN"],
       [lead |-> <<Shared, Pmf>>, variadic |-> FALSE, makes |-> "MemberCallbackN"],
       [lead |-> <<Pmf>>,         variadic |-> FALSE, makes |-> "ConstMemberCallbackN"] >>

Variants == { Overloads[k].makes : k \in DOMAIN Overloads }

\* The call shapes a caller can write: the three of the overload set, the same two
\* method shapes with a const-qualified method pointer, and a receiver of a derived
\* class with a method its class inherits (&Derived::m is a Ret(Class::*)(Args...)).
CallShapes ==
    { <<FnPtr>>, <<Shared, Pmf>>, <<Pmf>>, <<Shared, CPmf>>, <<CPmf>>, <<SharedDer, Pmf>> }

\* One leading argument against one leading parameter: the kinds are the same, or
\* a std::shared_ptr<Derived> is held against std::shared_ptr<Class>.
KindMatches(decl, arg) == decl = arg \/ (decl = Shared /\ arg = SharedDer)

\* What the leading arguments deduce for the template parameter Class.
DeducedClasses(lead) ==
    { IF lead[i] = SharedDer THEN "Derived" ELSE "Class" :
        i \in { j \in DOMAIN lead : lead[j] # FnPtr } }

\* Class must be deduced the same from the receiver and from the method pointer;
\* written out by the caller it is the method's class, to whose shared_ptr a
\* std::shared_ptr<Derived> converts.
ClassAgrees(lead, explicit) == explicit \/ Cardinality(DeducedClasses(lead)) <= 1

\* The pack Args as deduced from the callable's signature: its parameter types.
PackOfCallable(n, params) == [i \in 1..n |-> params]

\* The pack Args as deduced from the by-value parameters Args... args: the decayed
\* types of the arguments.
PackOfArgs(n) == [i \in 1..n |-> ByVal]

\* An argument initializes a parameter of the pack: an lvalue of T initializes a T,
\* a T&, a const T& and a U; an rvalue of T does not bind to a T&.
Binds(params, temp) == ~(temp /\ params = LRef)

\* Both deductions must give the same pack; written out by the caller the pack is
\* the callable's, which the arguments must be able to initialize.
PackAgrees(n, params, explicit, temp) ==
    IF explicit THEN n >= 1 => Binds(params, temp)
    ELSE PackOfCallable(n, params) = PackOfArgs(n)

\* Template argument deduction: overload k is viable for a call with these leading
\* kinds and n trailing arguments (temporaries or not), for a callable declaring n
\* parameters of the kind params.
Viable(lead, n, params, explicit, temp) ==
    { k \in DOMAIN Overloads :
        /\ Len(Overloads[k].lead) = Len(lead)
        /\ \A i \in DOMAIN lead : KindMatches(Overloads[k].lead[i], lead[i])
        /\ ClassAgrees(lead, explicit)
        /\ (Overloads[k].variadic \/ n = 0)
        /\ PackAgrees(n, params, explicit, temp) }

\* Partial ordering of function templates: the overload without the parameter pack
\* is more specialized than the one with it.
MoreSpecialized(a, b) == ~Overloads[a].variadic /\ Overloads[b].variadic

\* Overload resolution: the chosen overload, 0 when none is viable, -1 when the
\* call is ambiguous.
Resolve(lead, n, params, explicit, temp) ==
    LET v == Viable(lead, n, params, explicit, temp)
        best == { k \in v : \A j \in v \ {k} : MoreSpecialized(k, j) }
    IN  IF v = {} THEN 0
        ELSE IF Cardinality(best) # 1 THEN -1
        ELSE CHOOSE k \in best : TRUE

\* The kinds of the leading parameters each wrapper's constructor declares.
CtorLead(variant) ==
    CASE variant = "FunctionCallback"     -> <<FnPtr>>
      [] variant = "FunctionCallbackN"    -> <<FnPtr>>
      [] variant = "MemberCallback"       -> <<Shared, Pmf>>
      [] variant = "MemberCallbackN"      -> <<Shared, Pmf>>
      [] variant = "ConstMemberCallback"  -> <<CPmf>>
      [] variant = "ConstMemberCallbackN" -> <<CPmf>>

\* The constructor is handed the factory's own parameters: a pointer to a non-const
\* method does not convert to a pointer to a const method, nor the reverse; a
\* function pointer converts to the std::function.
CtorAccepts(variant, lead) == CtorLead(variant) = lead

\* std::bind(m_fn, receiver, _1) called with n arguments: _1 needs a first argument,
\* and the method, which declares n parameters, is handed exactly one; the bound
\* receiver must be something INVOKE can dereference (a std::nullptr_t is not).
BindInvocable(recvIsPointer, n) == recvIsPointer /\ n >= 1 /\ n = 1

\* Whether the body of the variant's call() is well-formed when the class is
\* instantiated with n argument types.
CallWellFormed(variant, n) ==
    CASE variant = "FunctionCallback"     -> TRUE
      [] variant = "FunctionCallbackN"    -> TRUE
      [] variant = "MemberCallback"       -> BindInvocable(TRUE, n)
      [] variant = "MemberCallbackN"      -> TRUE
      [] variant = "ConstMemberCallback"  -> BindInvocable(FALSE, n)
      [] variant = "ConstMemberCallbackN" -> FALSE

\* What the compiler makes of MakeCallback(<lead>, <n arguments>): the variant and
\* "built", or "no match" / "ambiguous" / "ill-formed" and no wrapper.
Factory(lead, n, params, explicit, temp) ==
    LET k == Resolve(lead, n, params, explicit, temp)
    IN  IF k = 0 THEN [variant |-> "none", result |-> "no match"]
        ELSE IF k = -1 THEN [variant |-> "none", result |-> "ambiguous"]
        ELSE [variant |-> Overloads[k].makes,
              result  |-> IF /\ CtorAccepts(Overloads[k].makes, Overloads[k].lead)
                             /\ CallWellFormed(Overloads[k].makes, n)
                          THEN "built" ELSE "ill-formed"]

(***************************************************************************)
(* The wrapper classes: constructors and call().                           *)
(***************************************************************************)

\* The values the caller's argument objects hold now.
ByValue(n) == [i \in 1..n |-> ivar[i]]

\* The value v of a T in the type U: the same value, written outside Val so that a
\* U is never taken for a T.
Converted(v) == v + Cardinality(Val)

\* One parameter of the pack (Args... args) initialized from the caller's argument
\* object i: a T or a U is an object of its own holding the argument's value,
\* converted for a U; a T& or a const T& is bound to the argument object, a
\* variable or a temporary.
Param(kind, i) ==
    CASE kind = ByVal -> [val |-> ivar[i]]
      [] kind = Conv  -> [val |-> Converted(ivar[i])]
      [] kind = LRef  -> [ref |-> i, const |-> FALSE]
      [] kind = CRef  -> [ref |-> i, const |-> TRUE]

\* The parameters Args... args, which std::forward<Args>(args)... hands on: each
\* object as an rvalue, each reference as it is.
Forward(n, params) == [i \in 1..n |-> Param(params, i)]

\* An element of std::tuple<Args...> of a reference type.
IsRef(e) == "ref" \in DOMAIN e

FunctionCallback(fn, args) ==
    [variant |-> "FunctionCallback", m_fn |-> fn, m_obj |-> NoRecv, m_args |-> args]

FunctionCallbackN(fn) ==
    [variant |-> "FunctionCallbackN", m_fn |-> fn, m_obj |-> NoRecv, m_args |-> <<>>]

MemberCallback(obj, fn, args) ==
    [variant |-> "MemberCallback", m_fn |-> fn, m_obj |-> obj, m_args |-> args]

MemberCallbackN(obj, fn) ==
    [variant |-> "MemberCallbackN", m_fn |-> fn, m_obj |-> obj, m_args |-> <<>>]

ConstMemberCallback(fn, args) ==
    [variant |-> "ConstMemberCallback", m_fn |-> fn, m_obj |-> NoRecv, m_args |-> args]

ConstMemberCallbackN(fn) ==
    [variant |-> "ConstMemberCallbackN", m_fn |-> fn, m_obj |-> NoRecv, m_args |-> <<>>]

\* The constructor call each variant's construction makes.
Construct(variant, obj, fn, args) ==
    CASE variant = "FunctionCallback"     -> FunctionCallback(fn, args)
      [] variant = "FunctionCallbackN"    -> FunctionCallbackN(fn)
      [] variant = "MemberCallback"       -> MemberCallback(obj, fn, args)
      [] variant = "MemberCallbackN"      -> MemberCallbackN(obj, fn)
      [] variant = "ConstMemberCallback"  -> ConstMemberCallback(fn, args)
      [] variant = "ConstMemberCallbackN" -> ConstMemberCallbackN(fn)

\* A std::function constructed from a null function pointer is empty.
Empty(w) == w.variant \in {"FunctionCallback", "FunctionCallbackN"} /\ w.m_fn = Null

\* A reference element of the tuple whose object's lifetime has ended: the
\* temporary it was bound to, or a variable that has left its scope.
Dangles(e) == IsRef(e) /\ e.ref \notin scope

\* The member std::tuple<Args...> m_args as call() reads it: the value an element
\* holds, or what the storage a reference element refers to holds now; for an
\* element that dangles, whatever has been left or put there since.
TupleArgs(w) ==
    [i \in DOMAIN w.m_args |->
        IF IsRef(w.m_args[i]) THEN ivar[w.m_args[i].ref] ELSE w.m_args[i].val]

\* The member std::shared_ptr<Class> m_obj as call() reads it: the stored pointer.
StoredObjLate(w) == ptr

StoredObj(w) == w.m_obj

\* std::bind(f, receiver, _1)(a1, ..., an) passes a1 alone; the rest is dropped.
BindOne(args) == <<args[1]>>

\* call() of each variant: the invocations of the target it makes, each with the
\* receiver and the arguments passed.  An empty std::function invokes nothing.
FunctionCallback_call(w) ==
    IF Empty(w) THEN <<>>
    ELSE <<[fn |-> w.m_fn, this |-> NoRecv, args |-> TupleArgs(w)]>>

FunctionCallbackN_call(w) ==
    IF Empty(w) THEN <<>>
    ELSE <<[fn |-> w.m_fn, this |-> NoRecv, args |-> <<>>]>>

MemberCallback_call(w) ==
    <<[fn |-> w.m_fn, this |-> StoredObj(w), args |-> BindOne(TupleArgs(w))]>>

MemberCallbackN_call(w) ==
    <<[fn |-> w.m_fn, this |-> StoredObj(w), args |-> <<>>]>>

\* Never instantiated (CallWellFormed): what the bodies are written to do.
ConstMemberCallback_call(w) ==
    <<[fn |-> w.m_fn, this |-> Null, args |-> BindOne(TupleArgs(w))]>>

ConstMemberCallbackN_call(w) ==
    <<[fn |-> w.m_fn, this |-> NoRecv, args |-> <<>>]>>

\* Callback::call(), virtual: dispatch on the dynamic type.
call(w) ==
    CASE w.variant = "FunctionCallback"     -> FunctionCallback_call(w)
      [] w.variant = "FunctionCallbackN"    -> FunctionCallbackN_call(w)
      [] w.variant = "MemberCallback"       -> MemberCallback_call(w)
      [] w.variant = "MemberCallbackN"      -> MemberCallbackN_call(w)
      [] w.variant = "ConstMemberCallback"  -> ConstMemberCallback_call(w)
      [] w.variant = "ConstMemberCallbackN" -> ConstMemberCallbackN_call(w)

\* The error call() raises itself: operator() of an empty std::function throws
\* std::bad_function_call.
OwnError(w) == IF Empty(w) THEN "bad_function_call" ELSE "none"

\* What the callee writes into a parameter it overwrites: another value of the
\* parameter's type.
Modified(v) == IF v % 2 = 0 THEN v + 1 ELSE v - 1

\* The tuple after a call(): the target's parameters are of the types Args, so a T
\* or a U is a copy of its element and the callee's writes end with it, and a
\* reference element stays bound where it was; call() assigns no element.
ArgsAfterCall(w, passed) == w.m_args

\* The caller's argument objects after a call() that passed the first `passed`
\* elements: a parameter of type T& is the object itself, and the callee's write
\* lands in its storage.
VarsAfterCall(w, passed) ==
    [j \in DOMAIN ivar |->
        IF \E i \in 1..passed :
              /\ IsRef(w.m_args[i])
              /\ ~w.m_args[i].const
              /\ w.m_args[i].ref = j
        THEN Modified(ivar[j])
        ELSE ivar[j]]

\* call() has no try block: what the target signals is what call()'s caller sees.
Propagate(raised) == raised

(***************************************************************************)
(* Shared ownership of the receiver.                                       *)
(***************************************************************************)

Built(hs) == { h \in DOMAIN hs : hs[h].result = "built" }
Live(hs) == { h \in Built(hs) : hs[h].holders > 0 }
HasReceiver(r) == r.variant \in {"MemberCallback", "MemberCallbackN"}

\* The live wrappers whose m_obj owns object o.
WrapperOwnersNone(o, hs) == {}

WrapperOwners(o, hs) == { h \in Live(hs) : HasReceiver(hs[h]) /\ hs[h].m_obj = o }

\* std::shared_ptr's use_count of o.
UseCount(o, p, hs) == (IF p = o THEN 1 ELSE 0) + Cardinality(WrapperOwners(o, hs))

\* An object is destroyed when its last owner releases it.
Reap(st, p, hs) ==
    [o \in Obj |-> IF st[o] = "alive" /\ UseCount(o, p, hs) = 0 THEN "dead" ELSE st[o]]

(***************************************************************************)
(* The state machine: a caller that builds wrappers, copies and releases   *)
(* the Callback::Ptr, calls through it, and changes its own variables.     *)
(***************************************************************************)

\* The callable a call shape names: the free function f, or the method m.
TargetOf(lead) == IF lead = <<FnPtr>> THEN "f" ELSE "m"

\* What a caller can pass as the callable: the function or method, or a null
\* pointer of the same type.
Targets(lead) == {TargetOf(lead), Null}

\* The receiver a call shape passes: the caller's shared_ptr, or none.
ReceiverOf(lead) == IF Len(lead) = 2 THEN ptr ELSE NoRecv

\* The record of one request.  What was asked: via, lead, nargs, params, explicit,
\* temp, req (the callable, the receiver, the values of the argument variables at that
\* moment and the tuple built from them).  What the compiler made of it: result,
\* variant.  When built, the wrapper's members m_fn, m_obj, m_args and the number
\* of Callback::Ptr copies alive (holders).  Its history: the call() invocations
\* made on it (ncalls), the executions of its target (execs), the most recent
\* execution (last, <<>> when there is none) and, for a tuple of references, what
\* the caller's variables held when it began (seen), whether some call() on it
\* ended in a failure (failed), and whether some call() on it ran when the caller's
\* variables no longer held what they held at construction (stale).
Request(via, lead, n, params, explicit, temp, fn, variant, result) ==
    LET obj  == ReceiverOf(lead)
        args == Forward(n, params)
        w    == IF result = "built"
                THEN Construct(variant, obj, fn, args)
                ELSE [variant |-> variant, m_fn |-> NoFn, m_obj |-> NoRecv, m_args |-> <<>>]
    IN  [via |-> via, lead |-> lead, nargs |-> n, params |-> params, explicit |-> explicit,
         result |-> result,
         variant |-> w.variant, m_fn |-> w.m_fn, m_obj |-> w.m_obj, m_args |-> w.m_args,
         temp |-> temp,
         holders |-> IF result = "built" THEN 1 ELSE 0,
         req |-> IF result = "built"
                 THEN [fn |-> fn, recv |-> obj, args |-> ByValue(n), tuple |-> args]
                 ELSE [fn |-> fn, recv |-> NoRecv, args |-> <<>>, tuple |-> <<>>],
         ncalls |-> 0, execs |-> 0, last |-> <<>>, seen |-> <<>>,
         failed |-> FALSE, stale |-> FALSE]

\* MakeCallback(<lead>, ivar[1], ..., ivar[n]), with the template arguments deduced
\* or written out, for a callable fn declaring n parameters of the kind params; the
\* arguments are the caller's variables, or temporaries (temp), which are
\* destroyed when the call has returned.
MakeCallback(lead, n, params, explicit, temp, fn) ==
    /\ ~aborted
    /\ Len(handles) < MaxHandles
    /\ n = 0 => (params = ByVal /\ ~temp)
    /\ 1..n \subseteq scope
    /\ fn \in Targets(lead)
    /\ LET r == Factory(lead, n, params, explicit, temp)
       IN  /\ handles' = Append(handles,
                                Request("factory", lead, n, params, explicit, temp, fn,
                                        r.variant, r.result))
           /\ scope' = IF temp /\ r.result = "built" THEN scope \ (1..n) ELSE scope
    /\ status' = Reap(status, ptr, handles')
    /\ UNCHANGED <<ptr, ivar, outcome, aborted>>

\* std::make_shared<Variant<...>>(...) written by the caller with an empty argument
\* pack (Variant<Ret>, Variant<Class, Ret>) and arguments of the constructor's own
\* parameter types.
Instantiate(variant) ==
    /\ ~aborted
    /\ Len(handles) < MaxHandles
    /\ handles' = Append(handles,
                         Request("direct", CtorLead(variant), 0, ByVal, TRUE, FALSE,
                                 TargetOf(CtorLead(variant)), variant,
                                 IF CallWellFormed(variant, 0) THEN "built" ELSE "ill-formed"))
    /\ status' = Reap(status, ptr, handles')
    /\ UNCHANGED <<ptr, ivar, scope, outcome, aborted>>

\* A copy of the Callback::Ptr is made (stored, queued).
CopyPtr(h) ==
    /\ ~aborted
    /\ h \in Live(handles)
    /\ handles[h].holders < MaxHolders
    /\ handles' = [handles EXCEPT ![h].holders = @ + 1]
    /\ status' = Reap(status, ptr, handles')
    /\ UNCHANGED <<ptr, ivar, scope, outcome, aborted>>

\* A copy of the Callback::Ptr is released; the last one destroys the wrapper and
\* with it the wrapper's m_obj.
ReleasePtr(h) ==
    /\ ~aborted
    /\ h \in Live(handles)
    /\ handles' = [handles EXCEPT ![h].holders = @ - 1]
    /\ status' = Reap(status, ptr, handles')
    /\ UNCHANGED <<ptr, ivar, scope, outcome, aborted>>

\* call() goes through a null pointer to member: there is no method to run.
NullMethod(h) == HasReceiver(handles[h]) /\ handles[h].m_fn = Null

\* call() dereferences a receiver that is null or destroyed.
DeadReceiver(h) ==
    /\ HasReceiver(handles[h])
    /\ IF StoredObj(handles[h]) = Null THEN TRUE
       ELSE status[StoredObj(handles[h])] # "alive"

\* call() hands a tuple element that dangles to its target, which reads it; an
\* empty std::function throws before any target has the tuple.
DanglingArgs(h) ==
    /\ ~Empty(handles[h])
    /\ \E i \in DOMAIN handles[h].m_args : Dangles(handles[h].m_args[i])

\* call() goes through a null pointer to member, dereferences a receiver that is
\* null or destroyed, or reads a reference whose object is gone: undefined
\* behaviour.
Undefined(h) == NullMethod(h) \/ DeadReceiver(h) \/ DanglingArgs(h)

\* How the target of a call() can end: normally or by a failure; "none" when
\* call() reaches no target.
TargetOutcomes(w) == IF Empty(w) THEN {"none"} ELSE Outcomes

\* One call(): the invocation it makes, if any, the callee's writes, and what the
\* caller of call() gets.
Run(h, raised) ==
    LET w    == handles[h]
        invs == call(w)
        own  == OwnError(w)
    IN  /\ handles' = [handles EXCEPT ![h] =
                          [@ EXCEPT !.m_args = ArgsAfterCall(w, Len(invs)),
                                    !.ncalls = @ + 1,
                                    !.execs  = @ + Len(invs),
                                    !.last   = IF invs = <<>> THEN @ ELSE invs,
                                    !.seen   = IF /\ invs # <<>>
                                                  /\ \E i \in DOMAIN w.m_args : IsRef(w.m_args[i])
                                               THEN ByValue(w.nargs) ELSE @,
                                    !.failed = @ \/ own # "none" \/ raised \notin {"ok", "none"},
                                    !.stale  = \/ @
                                               \/ ByValue(w.nargs) # w.req.args
                                               \/ ReceiverOf(w.lead) # w.req.recv]]
        /\ ivar' = IF invs = <<>> THEN ivar ELSE VarsAfterCall(w, Len(invs[1].args))
        /\ outcome' = [h |-> h, raised |-> raised, own |-> own,
                       seen |-> IF own # "none" THEN own ELSE Propagate(raised)]
        /\ UNCHANGED <<ptr, status, scope, aborted>>

RECURSIVE Calls(_)
Calls(hs) == IF hs = <<>> THEN 0 ELSE hs[1].ncalls + Calls(Tail(hs))

\* h->call() with defined behaviour; the target, if one is reached, ends as
\* `raised` says.
Call(h, raised) ==
    /\ ~aborted
    /\ h \in Live(handles)
    /\ Calls(handles) < MaxCalls
    /\ ~Undefined(h)
    /\ raised \in TargetOutcomes(handles[h])
    /\ Run(h, raised)

\* h->call() with undefined behaviour, first outcome: the target runs, with the
\* null or dangling this, and reading through a dangling reference what its storage
\* holds (there is a method to run).
CallUndefinedRuns(h, raised) ==
    /\ ~aborted
    /\ h \in Live(handles)
    /\ Calls(handles) < MaxCalls
    /\ Undefined(h)
    /\ ~NullMethod(h)
    /\ Run(h, raised)

\* h->call() with undefined behaviour, second outcome: the process is killed, by
\* the jump through the null pointer to member, the access to the receiver, or the
\* read through a dangling reference whose storage is no longer mapped.
CallUndefinedAborts(h) ==
    /\ ~aborted
    /\ h \in Live(handles)
    /\ Calls(handles) < MaxCalls
    /\ Undefined(h)
    /\ aborted' = TRUE
    /\ handles' = [handles EXCEPT ![h].ncalls = @ + 1]
    /\ UNCHANGED <<ptr, status, ivar, scope, outcome>>

\* The caller assigns another value to one of its argument variables.
Mutate(i) ==
    /\ ~aborted
    /\ i \in scope
    /\ \E v \in Val \ {ivar[i]} : ivar' = [ivar EXCEPT ![i] = v]
    /\ UNCHANGED <<ptr, status, scope, handles, outcome, aborted>>

\* One of the caller's argument variables leaves its scope.
LeaveScope(i) ==
    /\ ~aborted
    /\ i \in scope
    /\ scope' = scope \ {i}
    /\ UNCHANGED <<ptr, status, ivar, handles, outcome, aborted>>

\* The storage of an argument object whose lifetime has ended is used for something
\* else.
Clobber(i) ==
    /\ ~aborted
    /\ i \notin scope
    /\ \E v \in Val \ {ivar[i]} : ivar' = [ivar EXCEPT ![i] = v]
    /\ UNCHANGED <<ptr, status, scope, handles, outcome, aborted>>

\* The caller resets its shared_ptr.
ResetPtr ==
    /\ ~aborted
    /\ ptr # Null
    /\ ptr' = Null
    /\ status' = Reap(status, ptr', handles)
    /\ UNCHANGED <<ivar, scope, handles, outcome, aborted>>

\* The caller assigns a new object to its shared_ptr.
NewObject ==
    /\ ~aborted
    /\ \E o \in Obj :
        /\ status[o] = "unborn"
        /\ ptr' = o
        /\ status' = Reap([status EXCEPT ![o] = "alive"], o, handles)
    /\ UNCHANGED <<ivar, scope, handles, outcome, aborted>>

InitCommon ==
    /\ ptr = "o1"
    /\ status = [o \in Obj |-> IF o = "o1" THEN "alive" ELSE "unborn"]
    /\ handles = <<>>
    /\ scope = 1..MaxArgs
    /\ outcome = [h |-> 0, raised |-> "ok", own |-> "none", seen |-> "ok"]
    /\ aborted = FALSE

\* Building and calling: every call shape, argument count, parameter kind and
\* callable, variables and temporaries as arguments, the caller changing its
\* argument variables and leaving their scope, targets that end normally or fail.
Init == InitCommon /\ ivar \in [1..MaxArgs -> Val]

Next ==
    \/ \E lead \in CallShapes, n \in 0..MaxArgs, params \in ParamKinds,
          explicit \in BOOLEAN, temp \in BOOLEAN, fn \in {"f", "m", Null} :
          MakeCallback(lead, n, params, explicit, temp, fn)
    \/ \E variant \in Variants : Instantiate(variant)
    \/ \E h \in DOMAIN handles, raised \in Outcomes \cup {"none"} : Call(h, raised)
    \/ \E h \in DOMAIN handles, raised \in Outcomes : CallUndefinedRuns(h, raised)
    \/ \E h \in DOMAIN handles : CallUndefinedAborts(h)
    \/ \E i \in 1..MaxArgs : Mutate(i)
    \/ \E i \in 1..MaxArgs : LeaveScope(i)
    \/ \E i \in 1..MaxArgs : Clobber(i)

Spec == Init /\ [][Next]_vars

\* Ownership: the bound-method shape with the caller's variables, of the
\* parameters' types, as arguments, the pointer to member null or not, the copies
\* of the Callback::Ptr, the caller's own shared_ptr.
OwnerShapes == { <<Shared, Pmf>> }

InitOwners == InitCommon /\ ivar = [i \in 1..MaxArgs |-> i % 2]

NextOwners ==
    \/ \E lead \in OwnerShapes, n \in 0..1 :
          \E fn \in Targets(lead) : MakeCallback(lead, n, ByVal, FALSE, FALSE, fn)
    \/ \E h \in DOMAIN handles : CopyPtr(h)
    \/ \E h \in DOMAIN handles : ReleasePtr(h)
    \/ \E h \in DOMAIN handles, raised \in Outcomes \cup {"none"} : Call(h, raised)
    \/ \E h \in DOMAIN handles, raised \in Outcomes : CallUndefinedRuns(h, raised)
    \/ \E h \in DOMAIN handles : CallUndefinedAborts(h)
    \/ ResetPtr
    \/ NewObject

SpecOwners == InitOwners /\ [][NextOwners]_vars

(***************************************************************************)
(* The claims.                                                             *)
(***************************************************************************)

Requests == DOMAIN handles
IsBuilt(h) == handles[h].result = "built"
ViaFactory(h) == handles[h].via = "factory"
WasRun(h) == handles[h].last # <<>>

\* The effect of calling the free function f(a...) directly.
DirectCall(f, a) == [fn |-> f, this |-> NoRecv, args |-> a]

\* The effect of calling o.m(a...) directly.
DirectMethodCall(o, m, a) == [fn |-> m, this |-> o, args |-> a]

\* The values a callable receives for the values a: each converted to its
\* parameter's type.
AsParams(kind, a) == [i \in DOMAIN a |-> IF kind = Conv THEN Converted(a[i]) ELSE a[i]]

\* A request MakeCallback(f, a...) for a free function f and N >= 1 arguments.
FunctionRequest(h) ==
    /\ ViaFactory(h)
    /\ handles[h].lead = <<FnPtr>>
    /\ handles[h].nargs >= 1
    /\ handles[h].req.fn = TargetOf(<<FnPtr>>)

\* C1 as stated: for every free function f and every argument tuple a of arity
\* N >= 1, MakeCallback(f, a...) yields a handle, and every call() on it applies f
\* to exactly the captured values of a, in their order: the effect of f(a...).
C1_FreeFunctionCall ==
    \A h \in Requests :
        FunctionRequest(h)
        => /\ IsBuilt(h)
           /\ handles[h].variant = "FunctionCallback"
           /\ WasRun(h) => handles[h].last[1] =
                 DirectCall(handles[h].req.fn, AsParams(handles[h].params, handles[h].req.args))

\* C2: for every instance method m, receiver o and argument tuple a of any arity
\* N >= 1 (of m's parameter types), MakeCallback(o, m, a...) yields a handle, and
\* call() on it applies m to o and to all N values of a in their order: the effect
\* of o.m(a...).
C2_BoundMethodAnyArity ==
    \A h \in Requests :
        (/\ ViaFactory(h) /\ handles[h].lead = <<Shared, Pmf>>
         /\ handles[h].nargs >= 1 /\ handles[h].params = ByVal)
        => /\ IsBuilt(h)
           /\ WasRun(h) => handles[h].last[1] =
                 DirectMethodCall(handles[h].req.recv, handles[h].req.fn, handles[h].req.args)

\* C3: every call() on a bound-method handle runs the method on the object the
\* caller's shared_ptr referenced when the handle was built, whatever that variable
\* references now.
C3_ReceiverFixedAtConstruction ==
    \A h \in Requests :
        (IsBuilt(h) /\ HasReceiver(handles[h]) /\ WasRun(h))
        => handles[h].last[1].this = handles[h].req.recv

\* A bound-method handle built on an object was called after the caller's variable
\* had stopped referencing that object.
C3_Witness ==
    \E h \in Requests :
        /\ IsBuilt(h) /\ HasReceiver(handles[h])
        /\ handles[h].req.recv \in Obj
        /\ handles[h].stale
        /\ ptr # handles[h].req.recv
        /\ WasRun(h)

\* C4: in every state of the running process, the executions of a handle's target
\* number the call() invocations made on the handle: building, copying and
\* releasing execute nothing, each call() executes once.
C4_OneExecutionPerCall ==
    ~aborted => \A h \in Requests : handles[h].execs = handles[h].ncalls

\* C5: a handle's target, receiver and captured arguments are those it was built
\* with, in every state, and the invocation a call() would make now is the one the
\* latest call() made: call() neither consumes nor changes the stored arguments,
\* though the callee overwrites the parameters it receives.
C5_CapturedCallNeverChanges ==
    \A h \in Requests :
        IsBuilt(h)
        => /\ handles[h].m_fn = handles[h].req.fn
           /\ handles[h].m_obj = handles[h].req.recv
           /\ handles[h].m_args = handles[h].req.tuple
           /\ WasRun(h) => handles[h].last = call(handles[h])

\* C6: for every factory overload taking arguments, call() passes the values the
\* caller's variables held when the handle was built, whatever they hold now.
C6_ArgumentSnapshot ==
    \A h \in Requests :
        (ViaFactory(h) /\ IsBuilt(h) /\ handles[h].nargs >= 1 /\ WasRun(h))
        => handles[h].last[1].args = AsParams(handles[h].params, handles[h].req.args)

\* The N-ary and the nullary variant of one call shape.
Counterpart(variant) ==
    CASE variant = "FunctionCallback"     -> "FunctionCallbackN"
      [] variant = "FunctionCallbackN"    -> "FunctionCallback"
      [] variant = "MemberCallback"       -> "MemberCallbackN"
      [] variant = "MemberCallbackN"      -> "MemberCallback"
      [] variant = "ConstMemberCallback"  -> "ConstMemberCallbackN"
      [] variant = "ConstMemberCallbackN" -> "ConstMemberCallback"

\* C7: for each of the three call shapes, the nullary variant and the N-ary variant
\* instantiated with an empty argument tuple behave identically: where one can be
\* built for a target (and receiver) so can the other, and call() on either makes
\* the same invocations.
C7_NullaryEqualsEmptyNary ==
    \A h \in Requests :
        handles[h].nargs = 0 /\ handles[h].variant \in Variants
        => /\ IsBuilt(h) = CallWellFormed(Counterpart(handles[h].variant), 0)
           /\ IsBuilt(h) =>
                 call(handles[h]) =
                 call(Construct(Counterpart(handles[h].variant),
                                handles[h].m_obj, handles[h].m_fn, <<>>))

\* The variant each supported call shape is to be routed to.
Routed(lead, n) ==
    CASE lead = <<FnPtr>>       -> IF n = 0 THEN "FunctionCallbackN" ELSE "FunctionCallback"
      [] lead = <<Shared, Pmf>> -> IF n = 0 THEN "MemberCallbackN" ELSE "MemberCallback"
      [] lead = <<Pmf>>         -> IF n = 0 THEN "ConstMemberCallbackN" ELSE "ConstMemberCallback"

\* C8: the factory routes every supported call shape (the arguments of the
\* callable's parameter types) to exactly one wrapper variant, a function of the
\* shape alone, and yields that variant.
C8_EveryShapeRouted ==
    \A h \in Requests :
        (/\ ViaFactory(h) /\ handles[h].lead \in { <<FnPtr>>, <<Shared, Pmf>>, <<Pmf>> }
         /\ handles[h].params = ByVal)
        => /\ Cardinality(Viable(handles[h].lead, handles[h].nargs, handles[h].params,
                                 handles[h].explicit, handles[h].temp)) >= 1
           /\ Resolve(handles[h].lead, handles[h].nargs, handles[h].params,
                      handles[h].explicit, handles[h].temp) > 0
           /\ IsBuilt(h)
           /\ handles[h].variant = Routed(handles[h].lead, handles[h].nargs)

\* C9: call() raises no error of its own, and what its caller gets is what the
\* target signalled, a normal return or exactly its failure; a handle one of whose
\* calls failed still holds the target and arguments it was built with, every
\* call() on it having executed.
C9_FailurePropagatesUnchanged ==
    /\ outcome.own = "none"
    /\ outcome.seen = outcome.raised
    /\ \A h \in Requests :
          (IsBuilt(h) /\ handles[h].failed)
          => /\ handles[h].m_fn = handles[h].req.fn
             /\ handles[h].m_args = handles[h].req.tuple
             /\ handles[h].execs = handles[h].ncalls

\* C10: while a bound-method handle built from a non-null receiver has a holder,
\* its receiver is alive, whoever else has released it; and a destroyed object has
\* no owner left, neither the caller's shared_ptr nor a held handle.
C10_WrapperOwnsReceiver ==
    /\ \A h \in Live(handles) :
          (HasReceiver(handles[h]) /\ handles[h].req.recv # Null)
          => status[handles[h].m_obj] = "alive"
    /\ \A o \in Obj :
          status[o] = "dead"
          => /\ ptr # o
             /\ \A h \in Live(handles) : HasReceiver(handles[h]) => handles[h].m_obj # o

\* A held bound-method handle was called when it was the only owner left of its
\* receiver.
C10_Witness ==
    \E h \in Live(handles) :
        /\ HasReceiver(handles[h])
        /\ handles[h].m_obj \in Obj
        /\ ptr # handles[h].m_obj
        /\ handles[h].stale
        /\ status[handles[h].m_obj] = "alive"

====
